---- MODULE Spec2Model ----
(***************************************************************************)
(* Model of Circle_of_Life.py: the Ecosystem tick (Ecosystem.step) over    *)
(* Cell, Zebra and Lion objects.                                           *)
(*                                                                         *)
(* One call of Ecosystem.step is followed through its control points:      *)
(* BeginStep (line 191-192: newborns = [], the list(self.animals)          *)
(* snapshot), one AnimalStep per element of the snapshot (line 193, the    *)
(* whole of Animal.step for that animal) and EndStep (lines 194-201:       *)
(* purge, merge of the newborns, regrowth).  pc = "idle" is the state      *)
(* between two calls, which is what a caller of step() observes.           *)
(*                                                                         *)
(* Fields whose name starts with g_, and the variable pre, are history     *)
(* state: the modelled code writes but never reads them.  They record      *)
(* what happened during the current (or, when idle, the last) tick:        *)
(*   pre        the animals as they were when the tick started             *)
(*   g_i        the position of an animal in pre (0: not there)            *)
(*   g_born     the animal was created by breed() in this tick             *)
(*   g_acted    Animal.step got past its alive test for this animal        *)
(*   g_fed      the animal's move ate grass / killed a zebra               *)
(*   g_killed   the zebra was marked dead by Lion.move                     *)
(*   g_bred     the animal's breed() returned a baby                       *)
(*   g_eaten    (of a cell) Cell.eaten was called on it                    *)
(*   g_n        (of a cell) the number of calls of Cell.eaten on it        *)
(***************************************************************************)
EXTENDS Integers, Sequences, FiniteSets

\* Side of the grid (GRID_SIZE = 50 in the source, scaled down).
GRID_SIZE == 3
\* Largest initial populations explored (INITIAL_ZEBRAS = 20, INITIAL_LIONS = 5
\* in the source, scaled down); Init draws the counts from 0..these.
INITIAL_ZEBRAS == 2
INITIAL_LIONS == 1
\* A tick is only started while the population is at most this large.
MaxAnimals == 2

VARIABLES cells, zebras, lions, newborns, idx, pc, pre

vars == <<cells, zebras, lions, newborns, idx, pc, pre>>

Coords == (0..(GRID_SIZE - 1)) \X (0..(GRID_SIZE - 1))

----------------------------------------------------------------------------
\* Cell

\* Cell.__init__
NewCell == [grass |-> TRUE, regrow_timer |-> 0, g_eaten |-> FALSE, g_n |-> 0]

\* Variant of Cell.eaten with a regrow delay of 2.
CellEaten_Delay2(c) ==
    [c EXCEPT !.grass = FALSE, !.regrow_timer = 2, !.g_eaten = TRUE,
              !.g_n = c.g_n + 1]

\* Cell.eaten
CellEaten(c) ==
    [c EXCEPT !.grass = FALSE, !.regrow_timer = 1, !.g_eaten = TRUE,
              !.g_n = c.g_n + 1]

\* Variant of Cell.step that only counts down and never restores the grass.
CellStep_NoRegrow(c) ==
    IF ~c.grass
    THEN [c EXCEPT !.regrow_timer = c.regrow_timer - 1]
    ELSE c

\* Variant of Cell.step that regrows at regrow_timer < 0 instead of <= 0.
CellStep_Late(c) ==
    IF ~c.grass
    THEN LET t == c.regrow_timer - 1
         IN  [c EXCEPT !.grass = (t < 0), !.regrow_timer = t]
    ELSE c

\* Cell.step
CellStep(c) ==
    IF ~c.grass
    THEN LET t == c.regrow_timer - 1
         IN  [c EXCEPT !.grass = (t <= 0), !.regrow_timer = t]
    ELSE c

----------------------------------------------------------------------------
\* Animal

\* Animal.__init__ (kind is the class of the object)
NewAnimal(kind, x, y) ==
    [kind |-> kind, x |-> x, y |-> y, age |-> 0, hungry |-> 0, alive |-> TRUE,
     g_i |-> 0, g_born |-> FALSE, g_acted |-> FALSE, g_fed |-> FALSE,
     g_killed |-> FALSE, g_bred |-> FALSE]

\* Variant of Animal.neighbors that wraps around the edges of the grid.
Neighbors_Wrap(x, y) ==
    { <<(x - 1) % GRID_SIZE, y>>, <<(x + 1) % GRID_SIZE, y>>,
      <<x, (y - 1) % GRID_SIZE>>, <<x, (y + 1) % GRID_SIZE>> }

\* Animal.neighbors
Neighbors(x, y) ==
    { n \in { <<x - 1, y>>, <<x + 1, y>>, <<x, y - 1>>, <<x, y + 1>> } :
        /\ 0 <= n[1] /\ n[1] < GRID_SIZE
        /\ 0 <= n[2] /\ n[2] < GRID_SIZE }

\* Ecosystem.animals
Animals == zebras \o lions

\* Ecosystem.occupied
Occupied(x, y) ==
    \E i \in 1..Len(Animals) :
        Animals[i].alive /\ Animals[i].x = x /\ Animals[i].y = y

\* Ecosystem.animals_at
AnimalsAt(x, y) ==
    SelectSeq(Animals, LAMBDA a : a.alive /\ a.x = x /\ a.y = y)

\* Ecosystem.move
Move(a, nx, ny) == [a EXCEPT !.x = nx, !.y = ny]

\* Zebra.dead
ZebraDead(a) == a.hungry >= 3

\* Variant of Lion.dead with > in place of >=.
LionDead_Late(a) == a.hungry > 5

\* Lion.dead
LionDead(a) == a.hungry >= 5

\* Variant of Zebra.breed whose baby is a copy of the parent, taken before
\* the parent's age is reset, instead of a fresh Zebra.
ZebraBreed_Copy(a) ==
    IF a.age >= 3
    THEN [parent |-> [a EXCEPT !.age = 0, !.g_bred = TRUE],
          babies |-> << [NewAnimal("Zebra", a.x, a.y) EXCEPT
                            !.g_born = TRUE, !.age = a.age,
                            !.hungry = a.hungry] >>]
    ELSE [parent |-> a, babies |-> << >>]

\* Variant of Zebra.breed that tests age == 3 in place of age >= 3.
ZebraBreed_Exact(a) ==
    IF a.age = 3
    THEN [parent |-> [a EXCEPT !.age = 0, !.g_bred = TRUE],
          babies |-> << [NewAnimal("Zebra", a.x, a.y) EXCEPT !.g_born = TRUE] >>]
    ELSE [parent |-> a, babies |-> << >>]

\* Variant of Zebra.breed that tests age > 3 in place of age >= 3.
ZebraBreed_Late(a) ==
    IF a.age > 3
    THEN [parent |-> [a EXCEPT !.age = 0, !.g_bred = TRUE],
          babies |-> << [NewAnimal("Zebra", a.x, a.y) EXCEPT !.g_born = TRUE] >>]
    ELSE [parent |-> a, babies |-> << >>]

\* Zebra.breed: the parent after the call and the babies it returned
\* (<<>> for None).
ZebraBreed(a) ==
    IF a.age >= 3
    THEN [parent |-> [a EXCEPT !.age = 0, !.g_bred = TRUE],
          babies |-> << [NewAnimal("Zebra", a.x, a.y) EXCEPT !.g_born = TRUE] >>]
    ELSE [parent |-> a, babies |-> << >>]

\* Lion.breed
LionBreed(a) ==
    IF a.age >= 5
    THEN [parent |-> [a EXCEPT !.age = 0, !.g_bred = TRUE],
          babies |-> << [NewAnimal("Lion", a.x, a.y) EXCEPT !.g_born = TRUE] >>]
    ELSE [parent |-> a, babies |-> << >>]

----------------------------------------------------------------------------
\* Zebra.move: the outcomes random.choice allows.  An outcome is the cell
\* the zebra ends on, and whether it ate there.
\* Variant of grass_cells without its filter: every neighbouring cell.
ZebraGrassCells_Unfiltered(a) == Neighbors(a.x, a.y)

ZebraGrassCells(a) ==
    { n \in Neighbors(a.x, a.y) : cells[n].grass /\ ~Occupied(n[1], n[2]) }

Empties(a) ==
    { n \in Neighbors(a.x, a.y) : ~Occupied(n[1], n[2]) }

\* Variant of Zebra.move with its two branches swapped: the zebra wanders
\* when it can and grazes only when it cannot.
ZebraMove_WanderFirst(a) ==
    IF Empties(a) # {}
    THEN { [to |-> n, ate |-> FALSE] : n \in Empties(a) }
    ELSE IF ZebraGrassCells(a) # {}
         THEN { [to |-> n, ate |-> TRUE] : n \in ZebraGrassCells(a) }
         ELSE { [to |-> <<a.x, a.y>>, ate |-> FALSE] }

ZebraMove(a) ==
    IF ZebraGrassCells(a) # {}
    THEN { [to |-> n, ate |-> TRUE] : n \in ZebraGrassCells(a) }
    ELSE IF Empties(a) # {}
         THEN { [to |-> n, ate |-> FALSE] : n \in Empties(a) }
         ELSE { [to |-> <<a.x, a.y>>, ate |-> FALSE] }

\* Lion.move: the neighbouring cells that hold a living zebra.
LionPrey(a) ==
    { n \in Neighbors(a.x, a.y) :
        \E k \in 1..Len(AnimalsAt(n[1], n[2])) :
            AnimalsAt(n[1], n[2])[k].kind = "Zebra" }

\* next(a for a in animals_at(nx, ny) if isinstance(a, Zebra)): the first
\* living zebra on the cell, as an index of zebras (animals lists the zebras
\* first, in the order of self.zebras).
Victim(n) ==
    CHOOSE i \in 1..Len(zebras) :
        /\ zebras[i].alive /\ zebras[i].x = n[1] /\ zebras[i].y = n[2]
        /\ \A j \in 1..(i - 1) :
              ~(zebras[j].alive /\ zebras[j].x = n[1] /\ zebras[j].y = n[2])

\* Variant of Lion.move with its two branches swapped: the lion wanders when
\* it can and hunts only when it cannot.
LionMove_WanderFirst(a) ==
    IF Empties(a) # {}
    THEN { [to |-> n, ate |-> FALSE] : n \in Empties(a) }
    ELSE IF LionPrey(a) # {}
         THEN { [to |-> n, ate |-> TRUE] : n \in LionPrey(a) }
         ELSE { [to |-> <<a.x, a.y>>, ate |-> FALSE] }

LionMove(a) ==
    IF LionPrey(a) # {}
    THEN { [to |-> n, ate |-> TRUE] : n \in LionPrey(a) }
    ELSE IF Empties(a) # {}
         THEN { [to |-> n, ate |-> FALSE] : n \in Empties(a) }
         ELSE { [to |-> <<a.x, a.y>>, ate |-> FALSE] }

----------------------------------------------------------------------------
\* Ecosystem.__init__ and _populate: every cell has grass, the animals stand
\* on pairwise distinct cells, zebras first.
Placements(n) ==
    { s \in [1..n -> Coords] : \A i, j \in 1..n : i # j => s[i] # s[j] }

Init ==
    /\ cells = [c \in Coords |-> NewCell]
    /\ \E nz \in 0..INITIAL_ZEBRAS, nl \in 0..INITIAL_LIONS :
         \E s \in Placements(nz + nl) :
            /\ nz + nl <= MaxAnimals
            /\ zebras = [i \in 1..nz |-> NewAnimal("Zebra", s[i][1], s[i][2])]
            /\ lions = [i \in 1..nl |->
                           NewAnimal("Lion", s[nz + i][1], s[nz + i][2])]
    /\ newborns = << >>
    /\ idx = 0
    /\ pc = "idle"
    /\ pre = << >>

\* The history fields of the animal at position i at the start of a tick.
StartOfTick(a, i) ==
    [a EXCEPT !.g_i = i, !.g_born = FALSE, !.g_acted = FALSE, !.g_fed = FALSE,
              !.g_killed = FALSE, !.g_bred = FALSE]

\* What pre keeps of an animal.
Fields(a) ==
    [kind |-> a.kind, x |-> a.x, y |-> a.y, age |-> a.age,
     hungry |-> a.hungry]

\* Ecosystem.step, lines 191-192: newborns = [] and the snapshot
\* list(self.animals); idx is the position of the for loop in it.  The tick
\* is started only while the population is at most cap.
BeginStepUpTo(cap) ==
    /\ pc = "idle"
    /\ Len(Animals) <= cap
    /\ pc' = "loop"
    /\ idx' = 1
    /\ newborns' = << >>
    /\ zebras' = [i \in 1..Len(zebras) |-> StartOfTick(zebras[i], i)]
    /\ lions' = [i \in 1..Len(lions) |->
                    StartOfTick(lions[i], Len(zebras) + i)]
    /\ pre' = [i \in 1..Len(Animals) |-> Fields(Animals[i])]
    /\ cells' = [c \in Coords |->
                    [cells[c] EXCEPT !.g_eaten = FALSE, !.g_n = 0]]

BeginStep == BeginStepUpTo(MaxAnimals)

\* self.dead() and self.breed(), dispatched on the class of the animal.
Dead(a) == IF a.kind = "Zebra" THEN ZebraDead(a) ELSE LionDead(a)

Breed(a) == IF a.kind = "Zebra" THEN ZebraBreed(a) ELSE LionBreed(a)

\* Variant of the aging that adds 2.
Aged_Twice(a) == [a EXCEPT !.age = a.age + 2]

\* Animal.step, line 77: self.age += 1
Aged(a) == [a EXCEPT !.age = a.age + 1]

\* Variant of Animal.step that does not reset the hunger of an animal that
\* ate (self.hungry += 0 if ate else 1).
AfterMove_NoReset(a, ate) ==
    LET a1 == [a EXCEPT !.hungry = IF ate THEN a.hungry ELSE a.hungry + 1,
                        !.g_acted = TRUE]
    IN  IF Dead(a1)
        THEN [parent |-> [a1 EXCEPT !.alive = FALSE], babies |-> << >>]
        ELSE Breed(a1)

\* Animal.step after the move returned ate: hunger, death, breeding.
\* a has already aged and moved.
AfterMove(a, ate) ==
    LET a1 == [a EXCEPT !.hungry = IF ate THEN 0 ELSE a.hungry + 1,
                        !.g_acted = TRUE]
    IN  IF Dead(a1)
        THEN [parent |-> [a1 EXCEPT !.alive = FALSE], babies |-> << >>]
        ELSE Breed(a1)

\* Animal.step of the zebra at position idx of the snapshot.
ZebraStep ==
    /\ pc = "loop"
    /\ idx <= Len(zebras)
    /\ idx' = idx + 1
    /\ LET a == zebras[idx]
       IN  IF ~a.alive
           THEN UNCHANGED <<cells, zebras, lions, newborns>>
           ELSE \E o \in ZebraMove(Aged(a)) :
                  LET moved == Move(Aged(a),
                                    o.to[1], o.to[2])
                      r == AfterMove(moved, o.ate)
                  IN  /\ cells' = IF o.ate
                                  THEN [cells EXCEPT ![o.to] = CellEaten(@)]
                                  ELSE cells
                      /\ zebras' = [zebras EXCEPT ![idx] =
                                      [r.parent EXCEPT !.g_fed =
                                          (cells'[o.to] # cells[o.to])]]
                      /\ newborns' = newborns \o r.babies
                      /\ UNCHANGED lions
    /\ UNCHANGED <<pc, pre>>

\* Animal.step of the lion at position idx of the snapshot.
LionStep ==
    /\ pc = "loop"
    /\ idx > Len(zebras)
    /\ idx <= Len(Animals)
    /\ idx' = idx + 1
    /\ LET k == idx - Len(zebras)
           a == lions[k]
       IN  IF ~a.alive
           THEN UNCHANGED <<cells, zebras, lions, newborns>>
           ELSE \E o \in LionMove(Aged(a)) :
                  LET moved == Move(Aged(a),
                                    o.to[1], o.to[2])
                      r == AfterMove(moved, o.ate)
                  IN  /\ zebras' = IF o.ate
                                   THEN [zebras EXCEPT ![Victim(o.to)] =
                                           [@ EXCEPT !.alive = FALSE,
                                                     !.g_killed = TRUE]]
                                   ELSE zebras
                      /\ lions' = [lions EXCEPT ![k] =
                                     [r.parent EXCEPT !.g_fed =
                                         (zebras' # zebras)]]
                      /\ newborns' = newborns \o r.babies
                      /\ UNCHANGED cells
    /\ UNCHANGED <<pc, pre>>

\* Variant of the purge that keeps the dead.
Purge_Keep(s) == s

\* Ecosystem.step, lines 194-195
Purge(s) == SelectSeq(s, LAMBDA a : a.alive)

\* Ecosystem.step, lines 196-198
Merge(s, kind) == s \o SelectSeq(newborns, LAMBDA b : b.kind = kind)

\* Ecosystem.step, lines 199-201
Regrow == [c \in Coords |-> CellStep(cells[c])]

\* Ecosystem.step, lines 194-201, after the for loop has ended.
EndStep ==
    /\ pc = "loop"
    /\ idx > Len(Animals)
    /\ zebras' = Merge(Purge(zebras), "Zebra")
    /\ lions' = Merge(Purge(lions), "Lion")
    /\ cells' = Regrow
    /\ newborns' = << >>
    /\ idx' = 0
    /\ pc' = "idle"
    /\ UNCHANGED pre

Next == BeginStep \/ ZebraStep \/ LionStep \/ EndStep

Spec == Init /\ [][Next]_vars

\* An ecosystem as a test sets it up: built like Init, with one zebra, and
\* the age of that zebra then set by hand (z.age = g) to a value up to the
\* breeding age 3.
InitPreset ==
    /\ cells = [c \in Coords |-> NewCell]
    /\ \E nz \in {1}, nl \in 0..INITIAL_LIONS :
         \E s \in Placements(nz + nl), g \in 0..3 :
            /\ nz + nl <= MaxAnimals
            /\ zebras = [i \in 1..nz |->
                           [NewAnimal("Zebra", s[i][1], s[i][2]) EXCEPT
                               !.age = g]]
            /\ lions = [i \in 1..nl |->
                           NewAnimal("Lion", s[nz + i][1], s[nz + i][2])]
    /\ newborns = << >>
    /\ idx = 0
    /\ pc = "idle"
    /\ pre = << >>

SpecPreset == InitPreset /\ [][Next]_vars

\* A more crowded ecosystem: one zebra and one lion more than INITIAL_LIONS,
\* built by __init__ like Init, and ticks started up to a population two
\* above MaxAnimals.
InitCrowd ==
    /\ cells = [c \in Coords |-> NewCell]
    /\ \E s \in Placements(INITIAL_LIONS + 2) :
          /\ zebras = << NewAnimal("Zebra", s[1][1], s[1][2]) >>
          /\ lions = [i \in 1..(INITIAL_LIONS + 1) |->
                         NewAnimal("Lion", s[1 + i][1], s[1 + i][2])]
    /\ newborns = << >>
    /\ idx = 0
    /\ pc = "idle"
    /\ pre = << >>

BeginStepCrowd == BeginStepUpTo(MaxAnimals + 2)

NextCrowd == BeginStepCrowd \/ ZebraStep \/ LionStep \/ EndStep

SpecCrowd == InitCrowd /\ [][NextCrowd]_vars

----------------------------------------------------------------------------
\* Properties

\* Two cells are von-Neumann neighbours.
Adjacent(x1, y1, x2, y2) ==
    \/ x1 = x2 /\ (y1 - y2 = 1 \/ y2 - y1 = 1)
    \/ y1 = y2 /\ (x1 - x2 = 1 \/ x2 - x1 = 1)

\* step() has returned (and has been called at least once).
Returned == pc = "idle" /\ pre # << >>

\* The starvation threshold of an animal: 3 for a zebra, 5 for a lion.
Threshold(a) == IF a.kind = "Zebra" THEN 3 ELSE 5

\* C1: when step() has returned, no two animals of zebras + lions stand on
\* the same cell.  (Violated: breed() puts the baby on its parent's cell.)
C1_Occupancy ==
    pc = "idle" =>
        \A i, j \in 1..Len(Animals) :
            i # j => ~(Animals[i].x = Animals[j].x /\ Animals[i].y = Animals[j].y)

\* C2: when step() has returned, every animal that was alive at the start of
\* the tick and is still in the live collections has hunger 0 iff it fed in
\* the tick, and otherwise its pre-tick hunger plus 1.
C2_HungerReset ==
    Returned =>
        \A i \in 1..Len(Animals) :
            LET a == Animals[i]
            IN  a.g_i > 0 =>
                  /\ (a.hungry = 0) <=> a.g_fed
                  /\ ~a.g_fed => a.hungry = pre[a.g_i].hungry + 1

\* C2, witness: step() has returned with a lion that was hungry before the
\* tick, killed a zebra in it and has hunger 0.
C2_Witness ==
    /\ Returned
    /\ \E i \in 1..Len(lions) :
          /\ lions[i].g_i > 0 /\ lions[i].g_fed /\ lions[i].hungry = 0
          /\ pre[lions[i].g_i].hungry > 0

C4_NewbornDelay ==
    /\ \A k \in 1..Len(newborns) :
          LET b == newborns[k]
          IN  /\ b.g_born /\ b.alive /\ b.age = 0 /\ b.hungry = 0
              /\ ~b.g_acted /\ ~b.g_fed /\ ~b.g_bred
    /\ pc = "loop" => \A i \in 1..Len(Animals) : ~Animals[i].g_born
    /\ pc = "idle" =>
          \A i \in 1..Len(Animals) :
              LET b == Animals[i]
              IN  b.g_born =>
                    /\ b.alive /\ b.age = 0 /\ b.hungry = 0
                    /\ ~b.g_acted /\ ~b.g_fed /\ ~b.g_bred

\* C4, witness: step() has returned with a baby born in that tick.
C4_Witness ==
    /\ Returned
    /\ \E i \in 1..Len(Animals) : Animals[i].g_born

\* C5: while the tick runs, a step leaves every dead animal exactly as it
\* is and an Animal.step called on a dead animal changes nothing at all;
\* when step() has returned, zebras and lions hold living animals only.
C5_DeadStep ==
    /\ \A i \in 1..Len(Animals) :
          (pc = "loop" /\ pc' = "loop" /\ ~Animals[i].alive) =>
              Animals'[i] = Animals[i]
    /\ (pc = "loop" /\ idx <= Len(Animals) /\ ~Animals[idx].alive) =>
          UNCHANGED <<cells, zebras, lions, newborns>>

C5_DeadInert ==
    /\ [](pc = "idle" => \A i \in 1..Len(Animals) : Animals[i].alive)
    /\ [][C5_DeadStep]_vars

\* C5, witness: the tick still has an animal to process after one has died.
C5_Witness ==
    /\ pc = "loop"
    /\ idx <= Len(Animals)
    /\ \E i \in 1..Len(Animals) : ~Animals[i].alive

\* C6: a zebra killed by a lion in a tick has not gone through its own
\* Animal.step (no move, no foraging) in that tick.  (Violated: the zebras
\* are processed before the lions.)
C6_PredationFirst ==
    \A i \in 1..Len(zebras) : zebras[i].g_killed => ~zebras[i].g_acted

\* C7: right after the Animal.step in which an animal bred, its baby stands
\* on a cell next to the parent that no living animal occupies; an animal
\* that has no unoccupied neighbouring cell has not bred.  (Violated: the
\* baby is created on the parent's own cell.)
C7_BirthSpace ==
    (pc = "loop" /\ idx > 1) =>
        LET p == Animals[idx - 1]
        IN  /\ p.g_bred =>
                 LET b == newborns[Len(newborns)]
                 IN  /\ Adjacent(p.x, p.y, b.x, b.y)
                     /\ ~Occupied(b.x, b.y)
            /\ (p.alive /\ Empties(p) = {}) => ~p.g_bred

\* C8: a cell eaten in the running tick has no grass for the rest of the
\* loop over the animals, and a cell eaten in the tick that has just
\* returned has grass again.
C8_Regrowth ==
    \A c \in Coords :
        cells[c].g_eaten =>
            /\ pc = "loop" => ~cells[c].grass
            /\ pc = "idle" => cells[c].grass

\* C8, witness: step() has returned, and a cell was eaten in that tick.
C8_Witness ==
    /\ Returned
    /\ \E c \in Coords : cells[c].g_eaten

\* Scenario A: the tick started with one zebra, new, at (0, 0) and no lion.
ScenarioA ==
    /\ Len(pre) = 1
    /\ pre[1] = [kind |-> "Zebra", x |-> 0, y |-> 0, age |-> 0, hungry |-> 0]

\* C9 as stated: after one step() of scenario A the zebra is next to (0, 0),
\* its hunger is 0 and the cell it ate has no grass.  (Violated: the regrowth
\* pass that ends the same step() has already restored the grass.)
C9_ScenarioA_Stated ==
    (ScenarioA /\ pc = "idle") =>
        /\ Len(zebras) = 1
        /\ Adjacent(0, 0, zebras[1].x, zebras[1].y)
        /\ zebras[1].hungry = 0
        /\ ~cells[<<zebras[1].x, zebras[1].y>>].grass

\* C9 as amended: in scenario A, once the zebra has acted it is next to
\* (0, 0) with hunger 0 on the cell it ate; that cell has no grass for the
\* rest of the loop and has grass again when step() has returned.
C9_ScenarioA ==
    (ScenarioA /\ (pc = "idle" \/ idx > 1)) =>
        /\ Len(zebras) = 1 /\ Len(lions) = 0
        /\ Adjacent(0, 0, zebras[1].x, zebras[1].y)
        /\ zebras[1].alive /\ zebras[1].hungry = 0 /\ zebras[1].g_fed
        /\ cells[<<zebras[1].x, zebras[1].y>>].g_eaten
        /\ cells[<<zebras[1].x, zebras[1].y>>].grass = (pc = "idle")

\* C9, witness: step() has returned in scenario A.
C9_Witness == ScenarioA /\ pc = "idle"

\* Scenario B: the tick started with one new zebra and one new lion on
\* adjacent cells.
ScenarioB ==
    /\ Len(pre) = 2
    /\ pre[1].kind = "Zebra" /\ pre[2].kind = "Lion"
    /\ pre[1].age = 0 /\ pre[1].hungry = 0
    /\ pre[2].age = 0 /\ pre[2].hungry = 0
    /\ Adjacent(pre[1].x, pre[1].y, pre[2].x, pre[2].y)

\* C10: after one step() of scenario B the zebra is dead (gone from zebras),
\* the lion stands where the zebra stood and the lion's hunger is 0.
\* (Violated: the zebra acts first and steps out of the lion's reach.)
C10_ScenarioB ==
    (ScenarioB /\ pc = "idle") =>
        /\ Len(zebras) = 0
        /\ Len(lions) = 1
        /\ lions[1].x = pre[1].x /\ lions[1].y = pre[1].y
        /\ lions[1].hungry = 0

\* Scenario C: the tick started with a single zebra, of age 3, and no other
\* animal (every cell has grass then, so it has an empty neighbouring cell).
ScenarioC ==
    /\ Len(pre) = 1
    /\ pre[1].kind = "Zebra" /\ pre[1].age = 3

\* C11: after one step() of scenario C there is one zebra more than before
\* (two), and the parent, still first in zebras, has age 0.
C11_ScenarioC ==
    (ScenarioC /\ pc = "idle") =>
        /\ Len(zebras) = Len(pre) + 1
        /\ Len(lions) = 0
        /\ zebras[1].g_i = 1 /\ zebras[1].age = 0 /\ zebras[1].g_bred
        /\ zebras[2].g_born

\* C11, witness: step() has returned in scenario C.
C11_Witness == ScenarioC /\ pc = "idle" /\ Len(zebras) = 2

\* C12: right after the Animal.step in which an animal changed cell, no
\* other living animal of zebras + lions stands on the cell it moved to.
\* (Violated: a lion that kills the first of two zebras stacked on a cell,
\* parent and baby, ends on the cell of the second.)
C12_NoMoveOntoOccupied ==
    (pc = "loop" /\ idx > 1) =>
        LET a == Animals[idx - 1]
        IN  (a.g_acted /\ <<a.x, a.y>> # <<pre[a.g_i].x, pre[a.g_i].y>>) =>
                \A j \in 1..Len(Animals) :
                    j # idx - 1 =>
                        ~(Animals[j].alive /\ Animals[j].x = a.x
                                           /\ Animals[j].y = a.y)

\* C13: when the loop over the animals has ended and the newborns are about
\* to be merged, every animal that bred in the tick is alive, so that it is
\* in the live collections when step() returns.  (Violated: a zebra breeds
\* in its own Animal.step and is killed by a lion later in the same tick.)
C13_SurvivorsBreed ==
    (pc = "loop" /\ idx > Len(Animals)) =>
        \A i \in 1..Len(Animals) : Animals[i].g_bred => Animals[i].alive

\* C14: in the Animal.step of a living lion, if a living zebra stands on a
\* neighbouring cell then exactly one zebra is marked dead, it stood on a
\* neighbouring cell, the lion ends on that cell and its hunger becomes 0;
\* if none does, no zebra is marked dead and the lion's hunger grows by 1.
C14_HuntStep ==
    (pc = "loop" /\ idx > Len(zebras) /\ idx <= Len(Animals)
                /\ lions[idx - Len(zebras)].alive) =>
        LET k == idx - Len(zebras)
            a == lions[k]
            killed == { i \in 1..Len(zebras) :
                          zebras[i].alive /\ ~zebras'[i].alive }
        IN  IF \E i \in 1..Len(zebras) :
                  /\ zebras[i].alive
                  /\ Adjacent(a.x, a.y, zebras[i].x, zebras[i].y)
            THEN /\ Cardinality(killed) = 1
                 /\ \A i \in killed :
                       /\ Adjacent(a.x, a.y, zebras[i].x, zebras[i].y)
                       /\ lions'[k].x = zebras[i].x
                       /\ lions'[k].y = zebras[i].y
                 /\ lions'[k].hungry = 0
            ELSE /\ killed = {}
                 /\ lions'[k].hungry = a.hungry + 1

C14_HuntRule == [][C14_HuntStep]_vars

\* C14, witness: a lion has killed a zebra in this tick and stands on the
\* dead zebra's cell, one it was not on when the tick started.
C14_Witness ==
    /\ pc = "loop"
    /\ \E k \in 1..Len(lions), i \in 1..Len(zebras) :
          /\ lions[k].g_fed /\ lions[k].hungry = 0
          /\ zebras[i].g_killed
          /\ zebras[i].x = lions[k].x /\ zebras[i].y = lions[k].y
          /\ <<lions[k].x, lions[k].y>> # <<pre[lions[k].g_i].x, pre[lions[k].g_i].y>>

\* C15: in the Animal.step of a living zebra, if some neighbouring cell has
\* grass and no living occupant the zebra moves to such a cell, only that
\* cell loses its grass and the zebra's hunger becomes 0; otherwise, if some
\* neighbouring cell has no living occupant, it moves to such a cell, no
\* cell changes and its hunger grows by 1; otherwise it stays where it is,
\* no cell changes and its hunger grows by 1.
C15_ForageStep ==
    (pc = "loop" /\ idx <= Len(zebras) /\ zebras[idx].alive) =>
        LET a == zebras[idx]
            to == <<zebras'[idx].x, zebras'[idx].y>>
            free == { n \in Coords :
                        /\ Adjacent(a.x, a.y, n[1], n[2])
                        /\ \A j \in 1..Len(Animals) :
                              ~(Animals[j].alive /\ Animals[j].x = n[1]
                                                 /\ Animals[j].y = n[2]) }
            grassy == { n \in free : cells[n].grass }
        IN  IF grassy # {}
            THEN /\ to \in grassy
                 /\ ~cells'[to].grass
                 /\ \A c \in Coords : c # to => cells'[c] = cells[c]
                 /\ zebras'[idx].hungry = 0
            ELSE /\ IF free # {} THEN to \in free ELSE to = <<a.x, a.y>>
                 /\ cells' = cells
                 /\ zebras'[idx].hungry = a.hungry + 1

C16_Aging ==
    /\ \A i \in 1..Len(Animals) :
          LET a == Animals[i]
          IN  a.g_i > 0 =>
                a.age = IF ~a.g_acted THEN pre[a.g_i].age
                        ELSE IF a.g_bred THEN 0
                        ELSE pre[a.g_i].age + 1
    /\ pc = "loop" =>
          \A i \in 1..Len(Animals) : Animals[i].g_acted <=> i < idx
    /\ Returned =>
          \A i \in 1..Len(Animals) : Animals[i].g_i > 0 => Animals[i].g_acted

\* C16, witness: step() has returned with an animal that bred and has age 0
\* and another that did not and is one tick older than before.
C16_Witness ==
    /\ Returned
    /\ \E i, j \in 1..Len(Animals) :
          /\ Animals[i].g_i > 0 /\ Animals[i].g_bred /\ Animals[i].age = 0
          /\ Animals[j].g_i > 0 /\ ~Animals[j].g_bred
          /\ Animals[j].age = pre[Animals[j].g_i].age + 1

\* C17: every animal, waiting newborns included, stands inside the grid; an
\* animal that has not acted yet in the tick stands where it stood when the
\* tick started, and one that has acted stands there or one orthogonal step
\* away.
C17_InBounds ==
    /\ \A i \in 1..Len(Animals \o newborns) :
          LET a == (Animals \o newborns)[i]
          IN  /\ 0 <= a.x /\ a.x < GRID_SIZE
              /\ 0 <= a.y /\ a.y < GRID_SIZE
    /\ \A i \in 1..Len(Animals) :
          LET a == Animals[i]
          IN  a.g_i > 0 =>
                \/ a.x = pre[a.g_i].x /\ a.y = pre[a.g_i].y
                \/ /\ a.g_acted
                   /\ Adjacent(pre[a.g_i].x, pre[a.g_i].y, a.x, a.y)

\* C17, witness: an animal that started the tick in the far corner of the
\* grid has moved to a neighbouring cell.
C17_Witness ==
    \E i \in 1..Len(Animals) :
        LET a == Animals[i]
        IN  /\ a.g_i > 0 /\ a.g_acted
            /\ pre[a.g_i].x = GRID_SIZE - 1 /\ pre[a.g_i].y = GRID_SIZE - 1
            /\ Adjacent(pre[a.g_i].x, pre[a.g_i].y, a.x, a.y)

\* C18: Cell.eaten is called only on a cell that has grass, and on a given
\* cell at most once in a tick.
C18_EatStep ==
    \A c \in Coords : cells'[c].g_n > cells[c].g_n => cells[c].grass

C18_ConsumePrecondition ==
    /\ [](\A c \in Coords : cells[c].g_n <= 1)
    /\ [][C18_EatStep]_vars

\* C18, witness: two zebras have each eaten a cell in this tick, and the
\* cell the first one ate was next to where the second one started.
C18_Witness ==
    /\ pc = "loop"
    /\ \E i, j \in 1..Len(zebras) :
          /\ i < j /\ zebras[i].g_fed /\ zebras[j].g_fed
          /\ cells[<<zebras[i].x, zebras[i].y>>].g_n = 1
          /\ cells[<<zebras[j].x, zebras[j].y>>].g_n = 1
          /\ Adjacent(pre[j].x, pre[j].y, zebras[i].x, zebras[i].y)

\* C19: between two ticks every cell has grass (and a regrow_timer of 0); a
\* cell without grass is one that a zebra has eaten in the tick that is
\* still running.
C19_FieldFull ==
    /\ pc = "idle" =>
          \A c \in Coords : cells[c].grass /\ cells[c].regrow_timer = 0
    /\ \A c \in Coords : ~cells[c].grass => (pc = "loop" /\ cells[c].g_n > 0)

\* C19, witness: step() has returned, and the cell on which a zebra stands
\* and ate during that tick has its grass back.
C19_Witness ==
    /\ Returned
    /\ \E i \in 1..Len(zebras) :
          /\ zebras[i].g_fed
          /\ cells[<<zebras[i].x, zebras[i].y>>].g_n = 1
          /\ cells[<<zebras[i].x, zebras[i].y>>].grass

====
